---- MODULE Spec2Model ----
(***************************************************************************)
(* Model of the search/await engine of IntegrationTestAPI                  *)
(* (Gds/src/fprime_gds/common/testing_fw/api.py): find_history_item,       *)
(* find_history_sequence and find_history_count, run by the test's main    *)
(* thread against one TestHistory that a receiver thread appends to, with  *)
(* the process-wide SIGALRM timer used as the deadline; and of the calls    *)
(* of a test session around it: clear_histories, start_test_case,          *)
(* teardown, the translation of names and the sending of commands.         *)
(*                                                                         *)
(* TestHistory itself is not part of the sources at hand; its operations   *)
(* (size, retrieve, retrieve_new) follow the History contract of the       *)
(* specification, section 4.2.                                             *)
(***************************************************************************)
EXTENDS Integers, Sequences, FiniteSets, TLC

(* ------------------------------ bounds -------------------------------- *)
MaxHist == 3      \* records the receiver thread appends to the history
MaxStart == 1     \* largest literal start index a caller passes
MaxPreds == 2     \* longest predicate list given to find_history_sequence
MaxCount == 2     \* largest count given to find_history_count

(* ------------------------------ values -------------------------------- *)
\* start arguments that are not an index
NOW == -1
NoStart == -2
\* search_pred arguments: omitted, predicates.always_true(), and two
\* predicates on records
PredNone == "None"
always_true == "always_true"
P1 == "P1"
P2 == "P2"
\* a record carries its identity and, as its payload, the predicates that
\* hold of it: the payloads are "P2 only" and "both"
Vals == {{P2}, {P1, P2}}
Record(i, v) == [id |-> i, val |-> v]

\* search_pred(item)
Satisfies(p, r) == p = always_true \/ p \in r.val

\* count_pred(n): an int count is predicates.equal_to(count); the predicate
\* counts used here are predicates.greater_than_or_equal_to(n)
count_pred(c, n) ==
  IF c.type = "int" THEN n = c.n ELSE n >= c.n

(* --------------------------- TestHistory ------------------------------ *)
\* history.size()
size(h) == Len(h)

\* history.retrieve(start): the records at positions >= start, in order
retrieve(h, s) ==
  LET index == IF s = NoStart THEN 0 ELSE s
  IN  IF index >= Len(h) THEN << >> ELSE SubSeq(h, index + 1, Len(h))

\* retrieve_new() as it would be if it dropped the oldest of the records
\* it is to return
retrieve_new_but_one(h, cur) ==
  IF cur + 1 >= Len(h) THEN << >> ELSE SubSeq(h, cur + 2, Len(h))

\* history.retrieve_new(): the records appended since the read cursor was
\* last advanced by retrieve_new
retrieve_new(h, cur) ==
  IF cur >= Len(h) THEN << >> ELSE SubSeq(h, cur + 1, Len(h))

(* ------------------------------ state --------------------------------- *)
VARIABLES
  history,           \* the objects of the searched TestHistory
  retrieved_cursor,  \* the history's read cursor
  pc,                \* position of the main thread
  fn,                \* the search function being run
  start,             \* start after lines 783-784 / 823-824 / 885-886
  timeout,
  search_pred,
  seq_preds,         \* the predicates not matched yet (the popped copy)
  count,
  current,           \* history.retrieve(start) of the initial scan
  new_items,         \* the batch of history.retrieve_new() the call ended in
  pos,               \* items of new_items the for loop had gone through
  sequence,          \* accumulator of find_history_sequence
  objects,           \* accumulator of find_history_count
  ret,               \* value returned: << >> is None for the item search
  alarm,             \* the pending SIGALRM: "none", "current", "stale"
  \* history variables of the call, for stating properties
  from_now,          \* the call was made with start = NOW
  requested,         \* the list argument as passed by the caller
  exit,              \* how the call ended
  armed,             \* this call installed the handler and armed the alarm
  polled,            \* history.retrieve_new() passes of this call: "no",
                     \* "part" (cut short by the alarm) or "full"
  fired_by,          \* owner of the alarm whose expiry ended this call
  caller_hit,        \* a TimeoutException was raised in the caller's code
  \* the other fields of the IntegrationTestAPI object; history above is
  \* its event_history
  telemetry_history,
  command_history,
  aggregate_command_history,
  aggregate_telemetry_history,
  aggregate_event_history,
  latest_time,
  logger,            \* "None" or "open"
  time_stamp,        \* argument of clear_histories
  wrapper,           \* the await, assert or send function the test called
  specifiers,        \* its events argument, as passed
  other_exit         \* how a search called in a second thread ended

hvars == <<history, retrieved_cursor>>
argvars == <<fn, start, timeout, search_pred, seq_preds, count, from_now,
             requested>>
locvars == <<current, new_items, pos, sequence, objects, ret>>
sigvars == <<alarm>>
ghostvars == <<exit, armed, polled, fired_by, caller_hit>>
aggvars == <<aggregate_command_history, aggregate_telemetry_history,
             aggregate_event_history>>
sessvars == <<telemetry_history, command_history, aggvars, latest_time,
              logger>>
callvars == <<wrapper, specifiers, other_exit>>
apivars == <<sessvars, time_stamp, callvars>>
vars == <<hvars, pc, argvars, locvars, sigvars, ghostvars, apivars>>

(* ------------------------- pure parts of the code --------------------- *)
\* lines 783-784, 823-824, 885-886: if start == self.NOW: start = size()
ResolveStart(s, h) == IF s = NOW THEN size(h) ELSE s

\* lines 878-883: isinstance(count, predicates.predicate) or
\* isinstance(count, int); anything else raises the TypeError
IsCountAny(c) == TRUE
IsCount(c) == c.type \in {"int", "pred"}

\* lines 791, 840, 901: if timeout:
WantsPollAlways(t) == TRUE
WantsPoll(t) == t # 0

Prefix(items, k) == SubSeq(items, 1, k)

\* lines 787-789, 797-799: for item in items: if search_pred(item): return
\* item; the number of items the loop goes through, and what it returns
RECURSIVE FirstMatchPos(_, _)
FirstMatchPos(p, items) ==
  IF items = << >> THEN 0
  ELSE IF Satisfies(p, Head(items)) THEN 1
  ELSE LET n == FirstMatchPos(p, Tail(items))
       IN  IF n = 0 THEN 0 ELSE n + 1

FirstMatch(p, items) ==
  LET n == FirstMatchPos(p, items)
  IN  IF n = 0 THEN << >> ELSE << items[n] >>

\* line 830: if len(seq_preds) == 0
NoPredsNever(preds) == FALSE
NoPreds(preds) == Len(preds) = 0

\* lines 834, 847: if seq_preds[0](item)
SeqTestAny(preds, item) ==
  \E i \in 1 .. Len(preds) : Satisfies(preds[i], item)
SeqTest(preds, item) == Satisfies(preds[1], item)

\* lines 833-838, 846-852: the for loop of the sequence search, from the
\* accumulator seq and the remaining predicates preds; n counts the items
\* gone through; the loop is left by its return when preds comes out empty
RECURSIVE SeqLoop(_, _, _, _)
SeqLoop(items, seq, preds, n) ==
  IF items = << >> \/ preds = << >>
  THEN [seq |-> seq, preds |-> preds, n |-> n]
  ELSE IF SeqTest(preds, Head(items))
       THEN SeqLoop(Tail(items), Append(seq, Head(items)), Tail(preds),
                    n + 1)
       ELSE SeqLoop(Tail(items), seq, preds, n + 1)

\* lines 888-896: the accumulator of the initial scan of the count search
RECURSIVE Filter(_, _)
Filter(p, items) ==
  IF items = << >> THEN << >>
  ELSE IF Satisfies(p, Head(items))
       THEN << Head(items) >> \o Filter(p, Tail(items))
       ELSE Filter(p, Tail(items))

\* the scan as it would be without the test of line 894
CountScanAll(p, items) == items
\* the scan as it would be without line 890
CountScanLost(p, items) == IF p = PredNone THEN << >> ELSE Filter(p, items)
CountScan(p, items) == IF p = PredNone THEN items ELSE Filter(p, items)

\* lines 909-910: the count predicate is tested after each append
CountHitNever(c, objs) == FALSE
CountHit(c, objs) == count_pred(c, Len(objs))

\* the loop as it would be with the count predicate tested once the whole
\* batch is gone through
CountLoopBatch(items, objs, p, c, n) ==
  LET o == objs \o Filter(p, items)
  IN  [objs |-> o, hit |-> count_pred(c, Len(o)), n |-> n + Len(items)]

\* lines 907-912: the for loop over a poll batch of the count search; hit
\* says that the loop is left by its return
RECURSIVE CountLoop(_, _, _, _, _)
CountLoop(items, objs, p, c, n) ==
  IF items = << >> THEN [objs |-> objs, hit |-> FALSE, n |-> n]
  ELSE IF Satisfies(p, Head(items))
       THEN LET o == Append(objs, Head(items))
            IN  IF CountHit(c, o) THEN [objs |-> o, hit |-> TRUE, n |-> n + 1]
                ELSE CountLoop(Tail(items), o, p, c, n + 1)
       ELSE CountLoop(Tail(items), objs, p, c, n + 1)

(* ------------------------------ Init ---------------------------------- *)
NoCount == [type |-> "int", n |-> 0]
\* time_stamp=None, and TimeType().useconds of a new TimeType
NoStamp == 0
\* events=None, channels=None
NoSpecs == [kind |-> "none", specs |-> << >>]
ZeroTime == 0

\* __init__(pipeline, logname), lines 32-53
Constructed(logname) ==
  /\ history = << >>
  /\ retrieved_cursor = 0
  /\ pc = "idle"
  /\ fn = "none"
  /\ start = NoStart
  /\ timeout = 0
  /\ search_pred = PredNone
  /\ seq_preds = << >>
  /\ count = NoCount
  /\ current = << >>
  /\ new_items = << >>
  /\ pos = 0
  /\ sequence = << >>
  /\ objects = << >>
  /\ ret = << >>
  /\ alarm = "none"
  /\ from_now = FALSE
  /\ requested = << >>
  /\ exit = "none"
  /\ armed = FALSE
  /\ polled = "no"
  /\ fired_by = "none"
  /\ caller_hit = FALSE
  /\ telemetry_history = << >>
  /\ command_history = << >>
  /\ aggregate_command_history = << >>
  /\ aggregate_telemetry_history = << >>
  /\ aggregate_event_history = << >>
  /\ latest_time = ZeroTime
  /\ logger = (IF logname = "None" THEN "None" ELSE "open")
  /\ time_stamp = NoStamp
  /\ wrapper = "none"
  /\ specifiers = NoSpecs
  /\ other_exit = "none"

\* the API object of the searches below is made without a log
Init == Constructed("None")

(* ------------------------- the receiver thread ------------------------ *)
\* the functions that take the size of the history for the start, then
\* send a command, then search
SendFns == {"send_and_await_event", "send_and_assert_event"}

\* The main thread reads the history in three places: size() of a call
\* with start = NOW, retrieve() of the initial scan and retrieve_new() of a
\* poll. An append commutes with every other step of the main thread, so
\* it is enough to let records arrive right before one of these reads.
HistoryReadNext ==
  \/ pc = "idle"
  \/ pc = "scan" /\ from_now
  \/ pc = "scan" /\ wrapper \in SendFns
  \/ pc = "poll"

\* records received and commands sent so far
Arrivals ==
  Len(aggregate_event_history) + Len(aggregate_telemetry_history)
    + Len(aggregate_command_history)

\* the pipeline hands a decoded event to the histories registered for
\* events, the aggregate one and the one of the test, which append it
data_callback ==
  /\ Arrivals < MaxHist
  /\ HistoryReadNext
  /\ \E v \in Vals :
       LET r == Record(Len(aggregate_event_history) + 1, v)
       IN  /\ history' = Append(history, r)
           /\ aggregate_event_history' = Append(aggregate_event_history, r)
  /\ UNCHANGED <<retrieved_cursor, pc, argvars, locvars, sigvars, ghostvars,
                 telemetry_history, command_history,
                 aggregate_command_history, aggregate_telemetry_history,
                 latest_time, logger, time_stamp, callvars>>

(* ------------------------------ calls --------------------------------- *)
Starts == {NOW, NoStart} \cup (1 .. MaxStart)
Timeouts == {0, 1}
ItemPreds == {P1}
SeqPreds == {P1, P2}
SeqPredLists ==
  UNION {[1 .. n -> SeqPreds] : n \in 0 .. MaxPreds}
Counts == [type : {"int", "pred"}, n : 1 .. MaxCount]
\* a count that is neither a predicate nor an int, such as the string "1"
BadCounts == [type : {"other"}, n : {1}]

\* the main thread is in the code of the caller
Callable == pc = "idle"

\* what every search starts with: the start cursor is resolved
EnterSearch(s, t) ==
  /\ Callable
  /\ pc' = "scan"
  /\ start' = ResolveStart(s, history)
  /\ from_now' = (s = NOW)
  /\ timeout' = t
  /\ caller_hit' = FALSE
  /\ UNCHANGED <<hvars, locvars, sigvars, exit, armed, polled, fired_by>>

\* a search called by the test itself
Enter(s, t) ==
  /\ EnterSearch(s, t)
  /\ UNCHANGED apivars

\* line 883: the TypeError leaves the call with nothing else done; start
\* is still the argument as it was passed
Reject(s, t) ==
  /\ Callable
  /\ pc' = "error"
  /\ exit' = "type_error"
  /\ start' = s
  /\ from_now' = (s = NOW)
  /\ timeout' = t
  /\ caller_hit' = FALSE
  /\ UNCHANGED <<hvars, locvars, sigvars, armed, polled, fired_by>>
  /\ UNCHANGED apivars

\* find_history_item(search_pred, history, start, timeout), lines 783-784
find_history_item ==
  \E p \in ItemPreds, s \in Starts, t \in Timeouts :
    /\ Enter(s, t)
    /\ fn' = "item"
    /\ search_pred' = p
    /\ seq_preds' = << >>
    /\ requested' = << >>
    /\ count' = NoCount

\* find_history_sequence(seq_preds, history, start, timeout), lines 823-824
find_history_sequence ==
  \E ps \in SeqPredLists, s \in Starts, t \in Timeouts :
    /\ Enter(s, t)
    /\ fn' = "sequence"
    /\ search_pred' = PredNone
    /\ seq_preds' = ps
    /\ requested' = ps
    /\ count' = NoCount

\* find_history_count(count, history, search_pred, start, timeout),
\* lines 878-886: the type of count is tested first
find_history_count ==
  \E c \in Counts \cup BadCounts, p \in {PredNone} \cup ItemPreds,
     s \in Starts, t \in Timeouts :
    /\ IF IsCount(c) THEN Enter(s, t) ELSE Reject(s, t)
    /\ fn' = "count"
    /\ search_pred' = p
    /\ seq_preds' = << >>
    /\ requested' = << >>
    /\ count' = c

\* find_history_count called to count every record: search_pred is omitted
\* or is predicates.always_true(); requested keeps which
CountAll == {PredNone, always_true}
count_all ==
  \E c \in Counts, p \in CountAll, s \in Starts, t \in Timeouts :
    /\ Enter(s, t)
    /\ fn' = "count"
    /\ search_pred' = p
    /\ seq_preds' = << >>
    /\ requested' = << p >>
    /\ count' = c

(* ---------------------------- initial scan ---------------------------- *)
\* a return statement of the search
Return(r, how) ==
  /\ ret' = r
  /\ exit' = how
  /\ pc' = "done"

\* the end of the scan as it would be if the loop were entered without
\* the test of the timeout and without the alarm
AfterScanPoll(r) ==
  pc' = "poll" /\ UNCHANGED <<ret, exit>>

\* lines 791-792, 840-841, 901-902: the scan is over and the search
\* unsatisfied; with a timeout the try block is entered
AfterScan(r) ==
  IF WantsPoll(timeout)
  THEN pc' = "arm" /\ UNCHANGED <<ret, exit>>
  ELSE Return(r, "immediate")

\* lines 786-791, 803-804
ScanItem ==
  /\ pc = "scan" /\ fn = "item"
  /\ current' = retrieve(history, start)
  /\ LET m == FirstMatch(search_pred, current')
     IN  IF m # << >> THEN Return(m, "scan_match")
         ELSE AfterScan(<< >>)
  /\ UNCHANGED <<hvars, argvars, new_items, pos, sequence, objects, sigvars,
                 armed, polled, fired_by, caller_hit>>
  /\ UNCHANGED apivars

\* lines 826-840, 856-857
ScanSequence ==
  /\ pc = "scan" /\ fn = "sequence"
  /\ current' = retrieve(history, start)
  /\ LET r == SeqLoop(current', << >>, seq_preds, 0)
     IN  IF NoPreds(seq_preds)
         THEN Return(<< >>, "empty") /\ UNCHANGED <<sequence, seq_preds>>
         ELSE /\ sequence' = r.seq
              /\ seq_preds' = r.preds
              /\ IF Len(r.preds) = 0 THEN Return(r.seq, "scan_match")
                 ELSE AfterScan(r.seq)
  /\ UNCHANGED <<hvars, fn, start, timeout, search_pred, count, from_now,
                 requested, new_items, pos, objects, sigvars, armed, polled,
                 fired_by, caller_hit>>
  /\ UNCHANGED apivars

\* lines 888-901, 916-917
ScanCount ==
  /\ pc = "scan" /\ fn = "count"
  /\ current' = retrieve(history, start)
  /\ objects' = CountScan(search_pred, current')
  /\ search_pred' = IF search_pred = PredNone THEN always_true
                    ELSE search_pred
  /\ IF count_pred(count, Len(objects')) THEN Return(objects', "scan_match")
     ELSE AfterScan(objects')
  /\ UNCHANGED <<hvars, fn, start, timeout, seq_preds, count, from_now,
                 requested, new_items, pos, sequence, sigvars, armed, polled,
                 fired_by, caller_hit>>
  /\ UNCHANGED apivars

(* ------------------------------ polling ------------------------------- *)
\* lines 793-794, 842-843, 903-904: signal.signal(SIGALRM, handler);
\* signal.alarm(timeout) replaces whatever alarm was pending
Arm ==
  /\ pc = "arm"
  /\ alarm' = "current"
  /\ armed' = TRUE
  /\ pc' = "poll"
  /\ current' = << >>  \* not read again: the model forgets the snapshot
  /\ UNCHANGED <<hvars, argvars, new_items, pos, sequence, objects, ret,
                 exit, polled, fired_by, caller_hit>>
  /\ UNCHANGED apivars

\* One turn of while True: retrieve_new(), the for loop over the batch
\* and, when the loop does not return, time.sleep(0.1). The loop works on
\* locals only, so the turn is one step; PollCut is the turn that the
\* alarm cuts short. The batch is kept only when the call ends in it.
NextTurn ==
  /\ pc' = "poll"
  /\ new_items' = << >>
  /\ pos' = 0
  /\ UNCHANGED <<ret, exit>>

\* lines 795-800; the match is returned with the alarm left pending
PollItem ==
  /\ pc = "poll" /\ fn = "item"
  /\ retrieved_cursor' = size(history)
  /\ polled' = "full"
  /\ LET batch == retrieve_new(history, retrieved_cursor)
         m == FirstMatch(search_pred, batch)
     IN  IF m # << >>
         THEN /\ Return(m, "poll_match")
              /\ new_items' = batch
              /\ pos' = FirstMatchPos(search_pred, batch)
         ELSE NextTurn
  /\ UNCHANGED <<history, argvars, current, sequence, objects, sigvars,
                 armed, fired_by, caller_hit>>
  /\ UNCHANGED apivars

\* lines 844-853; signal.alarm(0) before the return of the whole sequence
PollSequence ==
  /\ pc = "poll" /\ fn = "sequence"
  /\ retrieved_cursor' = size(history)
  /\ polled' = "full"
  /\ LET batch == retrieve_new(history, retrieved_cursor)
         r == SeqLoop(batch, sequence, seq_preds, 0)
     IN  /\ sequence' = r.seq
         /\ seq_preds' = r.preds
         /\ IF Len(r.preds) = 0
            THEN /\ alarm' = "none"
                 /\ Return(r.seq, "poll_match")
                 /\ new_items' = batch
                 /\ pos' = r.n
            ELSE NextTurn /\ UNCHANGED alarm
  /\ UNCHANGED <<history, fn, start, timeout, search_pred, count, from_now,
                 requested, current, objects, armed, fired_by, caller_hit>>
  /\ UNCHANGED apivars

\* lines 905-913; signal.alarm(0) before the return of the counted objects
PollCount ==
  /\ pc = "poll" /\ fn = "count"
  /\ retrieved_cursor' = size(history)
  /\ polled' = "full"
  /\ LET batch == retrieve_new(history, retrieved_cursor)
         r == CountLoop(batch, objects, search_pred, count, 0)
     IN  /\ objects' = r.objs
         /\ IF r.hit
            THEN /\ alarm' = "none"
                 /\ Return(r.objs, "poll_match")
                 /\ new_items' = batch
                 /\ pos' = r.n
            ELSE NextTurn /\ UNCHANGED alarm
  /\ UNCHANGED <<history, argvars, current, sequence, armed, fired_by,
                 caller_hit>>
  /\ UNCHANGED apivars

(* ------------------------------ SIGALRM ------------------------------- *)
\* the value the except clause of the running search returns
Partial(seq, objs) ==
  IF fn = "item" THEN << >>
  ELSE IF fn = "sequence" THEN seq
  ELSE objs

\* the handler as it would be if it returned without raising: the alarm
\* is used up and the loop goes on
TimeoutIgnored ==
  /\ alarm # "none"
  /\ pc \in {"arm", "poll"}
  /\ alarm' = "none"
  /\ UNCHANGED <<hvars, pc, argvars, locvars, ghostvars>>
  /\ UNCHANGED apivars

\* lines 766-767 with 801-802, 854-855, 914-915: the alarm expires while
\* the main thread is inside the try block, between two turns of the loop
\* or before the first one
Timeout ==
  /\ alarm # "none"
  /\ pc \in {"arm", "poll"}
  /\ alarm' = "none"
  /\ fired_by' = alarm
  /\ Return(Partial(sequence, objects), "timeout")
  /\ UNCHANGED <<hvars, argvars, current, new_items, pos, sequence, objects,
                 armed, polled, caller_hit>>
  /\ UNCHANGED apivars

\* the same, while the for loop is at the k-th item of the batch that
\* retrieve_new() returned: either the loop has not come to a return yet,
\* or the k-th item has been appended to the accumulator and the alarm
\* expires before signal.alarm(0) and the return are executed
PollCut ==
  /\ alarm # "none"
  /\ pc = "poll"
  /\ LET batch == retrieve_new(history, retrieved_cursor)
     IN  \E k \in 0 .. Len(batch) :
           LET items == Prefix(batch, k)
               s == SeqLoop(items, sequence, seq_preds, 0)
               c == CountLoop(items, objects, search_pred, count, 0)
           IN  /\ fn = "item" =>
                    k < Len(batch) /\ FirstMatch(search_pred, items) = << >>
               /\ fn = "sequence" =>
                    s.n = k /\ (k < Len(batch) \/ Len(s.preds) = 0)
               /\ fn = "count" => c.n = k /\ (k < Len(batch) \/ c.hit)
               /\ sequence' = IF fn = "sequence" THEN s.seq ELSE sequence
               /\ seq_preds' = IF fn = "sequence" THEN s.preds ELSE seq_preds
               /\ objects' = IF fn = "count" THEN c.objs ELSE objects
               /\ new_items' = batch
               /\ pos' = k
  /\ retrieved_cursor' = size(history)
  /\ polled' = IF polled = "no" THEN "part" ELSE polled
  /\ alarm' = "none"
  /\ fired_by' = alarm
  /\ Return(Partial(sequence', objects'), "timeout")
  /\ UNCHANGED <<history, fn, start, timeout, search_pred, count, from_now,
                 requested, current, armed, caller_hit>>
  /\ UNCHANGED apivars

\* lines 766-767: the alarm expires while the main thread is in a search
\* but outside its try block
RaiseInSearch ==
  /\ alarm # "none"
  /\ pc = "scan"
  /\ alarm' = "none"
  /\ fired_by' = alarm
  /\ exit' = "raised"
  /\ pc' = "raised"
  /\ UNCHANGED <<hvars, argvars, locvars, armed, polled, caller_hit>>
  /\ UNCHANGED apivars

\* the functions that test with an assert statement what the search they
\* called has returned
AssertFns ==
  {"assert_event", "assert_event_sequence", "assert_event_count",
   "send_and_assert_event"}

\* the call is over, by a return or by an exception: its frame is gone and
\* the main thread is back in the code of the caller; the return of a
\* search to an assert function is not the end of the call
FrameGone ==
  /\ pc \in {"done", "raised", "error", "passed"}
  /\ pc = "done" => wrapper \notin AssertFns
  /\ pc' = "idle"
  /\ fn' = "none"
  /\ start' = NoStart
  /\ timeout' = 0
  /\ search_pred' = PredNone
  /\ seq_preds' = << >>
  /\ count' = NoCount
  /\ from_now' = FALSE
  /\ requested' = << >>
  /\ current' = << >>
  /\ new_items' = << >>
  /\ pos' = 0
  /\ sequence' = << >>
  /\ objects' = << >>
  /\ ret' = << >>
  /\ alarm' = IF alarm = "none" THEN "none" ELSE "stale"
  /\ exit' = "none"
  /\ armed' = FALSE
  /\ polled' = "no"
  /\ fired_by' = "none"
  /\ UNCHANGED caller_hit
  /\ time_stamp' = NoStamp
  /\ wrapper' = "none"
  /\ specifiers' = NoSpecs
  /\ UNCHANGED <<sessvars, other_exit>>

\* the end of the call as it would be if the search cleared the history it
\* has gone through
FinishAndClear ==
  /\ FrameGone
  /\ history' = << >>
  /\ retrieved_cursor' = 0

\* no statement of a search writes to the history
Finish ==
  /\ FrameGone
  /\ UNCHANGED hvars

\* lines 766-767: the alarm expires while the main thread is in the code
\* of the caller
RaiseInCaller ==
  /\ alarm # "none"
  /\ Callable
  /\ alarm' = "none"
  /\ caller_hit' = TRUE
  /\ UNCHANGED <<hvars, pc, argvars, locvars, exit, armed, polled, fired_by>>
  /\ UNCHANGED apivars

(* --------------------------- the test session ------------------------- *)
\* record.get_time(): the logical time of a record is its number of
\* arrival in its aggregate history, so times never decrease in a history
get_time(r) == r.id

\* predicates.greater_than(x), predicates.greater_than_or_equal_to(x) and
\* the call of such a predicate on a number
greater_than(x) == [op |-> "gt", x |-> x]
greater_than_or_equal_to(x) == [op |-> "ge", x |-> x]
Compare(p, x) == IF p.op = "ge" THEN x >= p.x ELSE x > p.x

\* predicates.event_predicate(time_pred=p), telemetry_predicate(time_pred=p):
\* the conjunction of an id part, an args or value part and a time part,
\* the parts not given being always true; and the call of it on a record
event_predicate(p) ==
  [id_pred |-> always_true, args_pred |-> always_true, time_pred |-> p]
telemetry_predicate(p) ==
  [id_pred |-> always_true, value_pred |-> always_true, time_pred |-> p]
Holds(p, r) == Compare(p.time_pred, get_time(r))

\* history.clear(): no record is left, and what retrieve_new() returns next
\* is what is appended from now on
clear(h) == << >>

\* history.clear(pred): the records preceding the first record that
\* satisfies pred are removed (section 3 (d) of the specification)
RECURSIVE clear_pred(_, _)
clear_pred(h, p) ==
  IF h = << >> THEN << >>
  ELSE IF Holds(p, Head(h)) THEN h
  ELSE clear_pred(Tail(h), p)

\* the read cursor after n records were removed from the front
cursor_less(cur, n) == IF cur > n THEN cur - n ELSE 0

\* line 122
time_pred_after(ts) == greater_than(ts)
time_pred(ts) == greater_than_or_equal_to(ts)

\* lines 121-129: the event and telemetry histories of the test
ClearTimed(ts) ==
  IF ts # NoStamp
  THEN LET e_pred == event_predicate(time_pred(ts))
           t_pred == telemetry_predicate(time_pred(ts))
           left == clear_pred(history, e_pred)
       IN  /\ history' = left
           /\ retrieved_cursor' =
                cursor_less(retrieved_cursor, Len(history) - Len(left))
           /\ telemetry_history' = clear_pred(telemetry_history, t_pred)
  ELSE /\ history' = clear(history)
       /\ retrieved_cursor' = 0
       /\ telemetry_history' = clear(telemetry_history)

\* the same without line 131
ClearTimedOnly(ts) ==
  /\ ClearTimed(ts)
  /\ UNCHANGED command_history

\* lines 121-131
ClearTestHistories(ts) ==
  /\ ClearTimed(ts)
  /\ command_history' = clear(command_history)

\* the same on the histories of lines 34-36 too
ClearEverything(ts) ==
  /\ ClearTestHistories(ts)
  /\ aggregate_command_history' = clear(aggregate_command_history)
  /\ aggregate_telemetry_history' = clear(aggregate_telemetry_history)
  /\ aggregate_event_history' = clear(aggregate_event_history)

\* clear_histories(time_stamp) as a whole: the histories cleared are the
\* ones made at lines 39-44, the ones of the pipeline are not written to
Clear(ts) ==
  /\ ClearTestHistories(ts)
  /\ UNCHANGED aggvars

\* what a call that is no search leaves alone of the frame of a call
framevars == <<start, timeout, search_pred, seq_preds, count, from_now,
               current, new_items, pos, sequence, objects, sigvars, armed,
               polled, fired_by, caller_hit, callvars>>

Stamps == {NoStamp} \cup (1 .. MaxHist)

\* clear_histories(time_stamp), lines 109-131
clear_histories ==
  \E ts \in Stamps :
    /\ Callable
    /\ Clear(ts)
    /\ fn' = "clear_histories"
    /\ time_stamp' = ts
    /\ pc' = "done"
    /\ exit' = "returned"
    /\ UNCHANGED <<framevars, requested, ret, latest_time, logger>>

\* get_latest_fsw_time(), lines 96-107
Max(a, b) == IF a >= b THEN a ELSE b
LastTime(h) == IF Len(h) > 0 THEN get_time(h[Len(h)]) ELSE ZeroTime
\* the value as it would be without self.latest_time in line 106
latest_of_histories ==
  Max(LastTime(aggregate_event_history),
      LastTime(aggregate_telemetry_history))
get_latest_fsw_time ==
  Max(Max(LastTime(aggregate_event_history),
          LastTime(aggregate_telemetry_history)), latest_time)

\* get_latest_fsw_time() called by the test: a time query
time_query ==
  /\ Callable
  /\ latest_time' = get_latest_fsw_time
  /\ ret' = << latest_time' >>
  /\ fn' = "get_latest_fsw_time"
  /\ pc' = "done"
  /\ exit' = "returned"
  /\ UNCHANGED <<hvars, framevars, requested, telemetry_history,
                 command_history, aggvars, logger, time_stamp>>

\* The user clears the histories of the pipeline, or removes their oldest
\* record, between two test cases, when the histories of the test are
\* empty. The records that arrive afterwards are numbered from the size of
\* the aggregate history again, so that their times start again too, as
\* after a restart of the flight software.
aggregate_clear ==
  \E all \in BOOLEAN :
    LET less(h) == IF all \/ h = << >> THEN clear(h) ELSE Tail(h)
    IN  /\ Callable
        /\ history = << >>
        /\ telemetry_history = << >>
        /\ command_history = << >>
        /\ Arrivals > 0
        /\ aggregate_event_history' = less(aggregate_event_history)
        /\ aggregate_telemetry_history' = less(aggregate_telemetry_history)
        /\ aggregate_command_history' = less(aggregate_command_history)
        /\ UNCHANGED <<hvars, pc, argvars, locvars, sigvars, ghostvars,
                       telemetry_history, command_history, latest_time,
                       logger, time_stamp, callvars>>

\* start_test_case(name), lines 85-87
start_test_case ==
  /\ Callable
  /\ latest_time' = get_latest_fsw_time
  /\ Clear(NoStamp)
  /\ fn' = "start_test_case"
  /\ pc' = "done"
  /\ exit' = "returned"
  /\ UNCHANGED <<framevars, requested, ret, logger, time_stamp>>

\* teardown(), lines 59-62
teardown ==
  /\ Callable
  /\ Clear(NoStamp)
  /\ logger' = "None"
  /\ fn' = "teardown"
  /\ pc' = "done"
  /\ exit' = "returned"
  /\ UNCHANGED <<framevars, requested, ret, latest_time, time_stamp>>

\* the pipeline hands a decoded channel update to the histories registered
\* for telemetry
telemetry_callback ==
  /\ Arrivals < MaxHist
  /\ Callable
  /\ LET r == Record(Len(aggregate_telemetry_history) + 1, {P2})
     IN  /\ telemetry_history' = Append(telemetry_history, r)
         /\ aggregate_telemetry_history' =
              Append(aggregate_telemetry_history, r)
  /\ UNCHANGED <<hvars, pc, argvars, locvars, sigvars, ghostvars,
                 command_history, aggregate_command_history,
                 aggregate_event_history, latest_time, logger, time_stamp,
                 callvars>>

\* A name given to the API is a mnemonic (str) or an identifier (int).
Mnemonic(n) == [type |-> "str", name |-> n, id |-> 0]
Ident(i) == [type |-> "int", name |-> "", id |-> i]

\* the dictionaries of the pipeline for commands, channels and events: by
\* mnemonic, giving the identifier, and the identifiers
cmd_name_dict == "CMD_NO_OP" :> 11
cmd_id_dict == {11}
ch_name_dict == "COUNTER" :> 21
ch_id_dict == {21}
event_name_dict == "EVT_P1" :> 31 @@ "EVT_P2" :> 32
event_id_dict == {31, 32}

\* raise KeyError(...)
KeyError == [ok |-> FALSE, id |-> 0]
\* lines 148-167, 308-327, 534-551
Lookup(name_dict, id_dict, x) ==
  IF x.type = "str"
  THEN IF x.name \in DOMAIN name_dict
       THEN [ok |-> TRUE, id |-> name_dict[x.name]]
       ELSE KeyError
  ELSE IF x.id \in id_dict THEN [ok |-> TRUE, id |-> x.id]
       ELSE KeyError

translate_command_name(command) == Lookup(cmd_name_dict, cmd_id_dict, command)
translate_telemetry_name(channel) == Lookup(ch_name_dict, ch_id_dict, channel)
translate_event_name(event) == Lookup(event_name_dict, event_id_dict, event)

Commands ==
  {Mnemonic("CMD_NO_OP"), Mnemonic("CMD_UNKNOWN"), Ident(11), Ident(12)}
Channels ==
  {Mnemonic("COUNTER"), Mnemonic("CH_UNKNOWN"), Ident(21), Ident(22)}
Events == {Mnemonic("EVT_P1"), Mnemonic("EVT_UNKNOWN"), Ident(32), Ident(33)}

\* a call that ends by an exception that reaches the caller
Raise(what) ==
  /\ pc' = "error"
  /\ exit' = what

\* translate_command_name, translate_telemetry_name and
\* translate_event_name called by the test
TranslateFn ==
  [command |-> "translate_command_name",
   telemetry |-> "translate_telemetry_name",
   event |-> "translate_event_name"]

translate_name ==
  \E kind \in {"command", "telemetry", "event"} :
    \E x \in (CASE kind = "command" -> Commands
                [] kind = "telemetry" -> Channels
                [] kind = "event" -> Events) :
      LET t == CASE kind = "command" -> translate_command_name(x)
                 [] kind = "telemetry" -> translate_telemetry_name(x)
                 [] kind = "event" -> translate_event_name(x)
      IN  /\ Callable
          /\ fn' = TranslateFn[kind]
          /\ requested' = << x >>
          /\ IF t.ok
             THEN ret' = << t.id >> /\ pc' = "done" /\ exit' = "returned"
             ELSE ret' = << >> /\ Raise("KeyError")
          /\ UNCHANGED <<hvars, framevars, apivars>>

\* pipeline.send_command(command, args): the command goes out, and the
\* histories registered for commands record it
pipeline_send_command(id) ==
  LET r == Record(Len(aggregate_command_history) + 1, id)
  IN  /\ aggregate_command_history' = Append(aggregate_command_history, r)
      /\ command_history' = Append(command_history, r)

\* send_command(command, args), lines 176-177
send_command ==
  \E command \in Commands :
    LET t == translate_command_name(command)
    IN  /\ Callable
        /\ fn' = "send_command"
        /\ requested' = << command >>
        /\ IF t.ok
           THEN /\ Arrivals < MaxHist
                /\ pipeline_send_command(t.id)
                /\ pc' = "done" /\ exit' = "returned"
           ELSE /\ Raise("KeyError")
                /\ UNCHANGED <<command_history, aggregate_command_history>>
        /\ UNCHANGED <<hvars, framevars, ret, telemetry_history,
                       aggregate_telemetry_history, aggregate_event_history,
                       latest_time, logger, time_stamp>>

\* assert_send_command(command, args), lines 239-247
assert_send_command ==
  \E command \in Commands :
    LET t == translate_command_name(command)
    IN  /\ Callable
        /\ fn' = "assert_send_command"
        /\ requested' = << command >>
        /\ IF t.ok
           THEN /\ Arrivals < MaxHist
                /\ pipeline_send_command(t.id)
                /\ pc' = "done" /\ exit' = "returned"
           ELSE /\ Raise("AssertionError")
                /\ UNCHANGED <<command_history, aggregate_command_history>>
        /\ UNCHANGED <<hvars, framevars, ret, telemetry_history,
                       aggregate_telemetry_history, aggregate_event_history,
                       latest_time, logger, time_stamp>>

\* get_event_predicate(event), lines 572-579, for a mnemonic or an
\* identifier: the predicate "the event has this identifier", which for the
\* records of the model is P1 for 31 and P2 for 32
event_id_pred == 31 :> P1 @@ 32 :> P2
get_event_predicate(event) ==
  LET t == translate_event_name(event)
  IN  IF t.ok THEN [ok |-> TRUE, pred |-> event_id_pred[t.id]]
      ELSE [ok |-> FALSE, pred |-> PredNone]

\* the events argument of a function of the facade: a list of event
\* specifiers, or one event specifier
EventLists ==
  [kind : {"list"}, specs : UNION {[1 .. n -> Events] : n \in 0 .. 1}]
EventOnes == [kind : {"one"}, specs : [1 .. 1 -> Events]]
EventArgs == EventLists \cup EventOnes

\* lines 623-625, 654-656, 659: the predicates made of the specifiers
e_preds(events) ==
  [i \in DOMAIN events.specs |-> get_event_predicate(events.specs[i])]
Translated(events) ==
  \A i \in DOMAIN events.specs : e_preds(events)[i].ok
PredsOf(events) ==
  [i \in DOMAIN events.specs |-> e_preds(events)[i].pred]

\* the function w of the facade is called by the test
Via(w, events) ==
  /\ Callable
  /\ wrapper' = w
  /\ specifiers' = events
  /\ UNCHANGED <<time_stamp, other_exit>>

\* the function w ends by an exception raised before a search is called
Failed(w, what) ==
  /\ Raise(what)
  /\ fn' = w
  /\ UNCHANGED <<start, timeout, from_now, search_pred, seq_preds, count,
                 requested, caller_hit>>
  /\ UNCHANGED <<hvars, locvars, sigvars, armed, polled, fired_by>>

\* the object given as search_pred by lines 381 and 604
TestHistoryObject == "TestHistory"

\* lines 381 and 604: find_history_item(history, pred, start, timeout), the
\* history given as search_pred and the predicate as history; line 784
\* calls size(), or line 786 retrieve(), on the predicate, which has neither
SwappedItem(s, t) ==
  /\ Raise("AttributeError")
  /\ fn' = "item"
  /\ search_pred' = TestHistoryObject
  /\ start' = s
  /\ from_now' = (s = NOW)
  /\ timeout' = t
  /\ caller_hit' = FALSE
  /\ UNCHANGED <<seq_preds, count, requested>>
  /\ UNCHANGED <<hvars, locvars, sigvars, armed, polled, fired_by>>

\* await_event, lines 599-604, and await_telemetry, lines 376-381, from
\* the translation of the specifier on
AwaitItem(w, known, s, t) ==
  IF known THEN SwappedItem(s, t) ELSE Failed(w, "KeyError")

\* await_event_sequence, lines 623-630
AwaitSequence(w, events, s, t) ==
  IF Translated(events)
  THEN /\ EnterSearch(s, t)
       /\ fn' = "sequence"
       /\ search_pred' = PredNone
       /\ seq_preds' = PredsOf(events)
       /\ requested' = PredsOf(events)
       /\ count' = NoCount
  ELSE Failed(w, "KeyError")

\* line 883 in a search called by the facade
RejectSearch(s, t) ==
  /\ Raise("type_error")
  /\ start' = s
  /\ from_now' = (s = NOW)
  /\ timeout' = t
  /\ caller_hit' = FALSE
  /\ UNCHANGED <<hvars, locvars, sigvars, armed, polled, fired_by>>

\* await_event_count, lines 651-664: no events, one specifier, or a list,
\* for which predicates.satisfies_any of one predicate is that predicate
CountEvents ==
  {NoSpecs} \cup EventOnes \cup {e \in EventLists : Len(e.specs) = 1}

AwaitCount(w, c, events, s, t) ==
  LET search == IF events.kind = "none" THEN PredNone
                ELSE PredsOf(events)[1]
  IN  IF Translated(events)
      THEN /\ IF IsCount(c) THEN EnterSearch(s, t) ELSE RejectSearch(s, t)
           /\ fn' = "count"
           /\ search_pred' = search
           /\ seq_preds' = << >>
           /\ requested' = << >>
           /\ count' = c
      ELSE Failed(w, "KeyError")

await_event ==
  \E event \in EventOnes, s \in Starts, t \in Timeouts :
    /\ Via("await_event", event)
    /\ AwaitItem("await_event", Translated(event), s, t)
    /\ UNCHANGED sessvars

await_telemetry ==
  \E channel \in Channels, s \in Starts, t \in Timeouts :
    /\ Via("await_telemetry", [kind |-> "one", specs |-> << channel >>])
    /\ AwaitItem("await_telemetry", translate_telemetry_name(channel).ok,
                 s, t)
    /\ UNCHANGED sessvars

await_event_sequence ==
  \E events \in EventLists, s \in Starts, t \in Timeouts :
    /\ Via("await_event_sequence", events)
    /\ AwaitSequence("await_event_sequence", events, s, t)
    /\ UNCHANGED sessvars

await_event_count ==
  \E c \in Counts \cup BadCounts, events \in CountEvents,
     s \in Starts, t \in Timeouts :
    /\ Via("await_event_count", events)
    /\ AwaitCount("await_event_count", c, events, s, t)
    /\ UNCHANGED sessvars

\* assert_event, lines 687-688: the predicate is made, then await_event is
\* called; line 689 is not reached
assert_event ==
  \E event \in EventOnes, s \in Starts, t \in Timeouts :
    /\ Via("assert_event", event)
    /\ AwaitItem("assert_event", Translated(event), s, t)
    /\ UNCHANGED sessvars

\* assert_event_sequence, line 707
assert_event_sequence ==
  \E events \in EventLists, s \in Starts, t \in Timeouts :
    /\ Via("assert_event_sequence", events)
    /\ AwaitSequence("assert_event_sequence", events, s, t)
    /\ UNCHANGED sessvars

\* assert_event_count, line 728
assert_event_count ==
  \E c \in Counts \cup BadCounts, events \in CountEvents,
     s \in Starts, t \in Timeouts :
    /\ Via("assert_event_count", events)
    /\ AwaitCount("assert_event_count", c, events, s, t)
    /\ UNCHANGED sessvars

\* lines 708 and 729-733: what the assert statement tests of the list the
\* search returned
Complete ==
  IF fn = "sequence" THEN Len(specifiers.specs) = Len(ret)
  ELSE count_pred(count, Len(ret))

\* the search has returned to the assert function: lines 708-709, 733-734
assert_result ==
  /\ pc = "done"
  /\ wrapper \in AssertFns
  /\ IF Complete THEN pc' = "passed" /\ UNCHANGED exit
     ELSE Raise("AssertionError")
  /\ UNCHANGED <<hvars, argvars, locvars, sigvars, armed, polled, fired_by,
                 caller_hit, apivars>>

\* send_and_await_event, lines 218-223, and send_and_assert_event, lines
\* 287-292: the size is taken, the command is translated and sent, and the
\* events are awaited from that size on. The name of an event is looked
\* up only then, by lines 623-625 or 599.
SendAnd(w, command, events, t) ==
  LET start0 == size(history)
      c == translate_command_name(command)
  IN  /\ IF ~c.ok
         THEN /\ Failed(w, "KeyError")
              /\ UNCHANGED <<command_history, aggregate_command_history>>
         ELSE /\ Arrivals < MaxHist
              /\ pipeline_send_command(c.id)
              /\ IF events.kind = "list"
                 THEN AwaitSequence(w, events, start0, t)
                 ELSE AwaitItem(w, Translated(events), start0, t)
      /\ UNCHANGED <<telemetry_history, aggregate_telemetry_history,
                     aggregate_event_history, latest_time, logger>>

send_and_await_event ==
  \E command \in Commands, events \in EventArgs, t \in Timeouts :
    /\ Via("send_and_await_event", events)
    /\ SendAnd("send_and_await_event", command, events, t)

send_and_assert_event ==
  \E command \in Commands, events \in EventArgs, t \in Timeouts :
    /\ Via("send_and_assert_event", events)
    /\ SendAnd("send_and_assert_event", command, events, t)

\* a search called by the test with timeout = 0
immediate_search ==
  /\ find_history_item \/ find_history_sequence
  /\ timeout' = 0

\* send_and_await_event called by the test with timeout = 0
immediate_send ==
  /\ send_and_await_event
  /\ timeout' = 0

(* --------------------------- specification ---------------------------- *)
Next ==
  \/ data_callback
  \/ find_history_item
  \/ find_history_sequence
  \/ find_history_count
  \/ ScanItem
  \/ ScanSequence
  \/ ScanCount
  \/ Arm
  \/ PollItem
  \/ PollSequence
  \/ PollCount
  \/ Timeout
  \/ PollCut
  \/ RaiseInSearch
  \/ Finish
  \/ RaiseInCaller

Spec == Init /\ [][Next]_vars

\* The main thread is never stopped for good: the statement it stands at
\* is executed, which is asked here of the statements before the loop
\* only. An alarm pending while the main thread is in a try block
\* expires and the kernel delivers SIGALRM, which the interpreter hands to
\* the main thread. Nothing obliges the receiver thread to append, nor the
\* caller to call.
BeforeLoop == ScanItem \/ ScanSequence \/ ScanCount \/ Arm

FairSpec == Spec /\ WF_vars(BeforeLoop) /\ WF_vars(Timeout)

\* A second thread of the test calls a search while the search of the main
\* thread polls. The start is resolved and the history scanned as in the
\* main thread, by size() and retrieve(start), which write nothing. A scan
\* that leaves the search unsatisfied with a timeout comes to
\* signal.signal() of line 793 (842, 903), which raises ValueError in every
\* thread but the main thread of the interpreter: the second thread never
\* arms the alarm and never calls retrieve_new().
thread_search ==
  \E p \in ItemPreds, s \in Starts, t \in Timeouts :
    LET m == FirstMatch(p, retrieve(history, ResolveStart(s, history)))
    IN  /\ pc = "poll"
        /\ other_exit = "none"
        /\ other_exit' = IF m # << >> THEN "scan_match"
                         ELSE IF WantsPoll(t) THEN "ValueError"
                         ELSE "immediate"
        /\ UNCHANGED <<hvars, pc, argvars, locvars, sigvars, ghostvars,
                       sessvars, time_stamp, wrapper, specifiers>>

\* the call of the second thread is over
thread_done ==
  /\ other_exit # "none"
  /\ other_exit' = "none"
  /\ UNCHANGED <<hvars, pc, argvars, locvars, sigvars, ghostvars,
                 sessvars, time_stamp, wrapper, specifiers>>

ThreadNext ==
  \/ Next
  \/ thread_search
  \/ thread_done

ThreadSpec == Init /\ [][ThreadNext]_vars

\* A test session: the API object is made with or without a log, records
\* and channel updates arrive, and the test clears, translates, sends and
\* searches with timeout = 0.
Lognames == {"None", "log"}
ApiInit == \E logname \in Lognames : Constructed(logname)

ApiNext ==
  \/ data_callback
  \/ telemetry_callback
  \/ clear_histories
  \/ start_test_case
  \/ teardown
  \/ translate_name
  \/ send_command
  \/ assert_send_command
  \/ immediate_send
  \/ immediate_search
  \/ ScanItem
  \/ ScanSequence
  \/ Finish

ApiSpec == ApiInit /\ [][ApiNext]_vars

\* The test counts every record of the history, in both ways.
CountNext ==
  \/ data_callback
  \/ count_all
  \/ ScanCount
  \/ Arm
  \/ PollCount
  \/ Timeout
  \/ PollCut
  \/ Finish

CountSpec == Init /\ [][CountNext]_vars

\* Test cases one after the other: records and channel updates arrive, the
\* test asks for the latest time and starts test cases, and the user clears
\* the histories of the pipeline in between.
TimeNext ==
  \/ data_callback
  \/ telemetry_callback
  \/ time_query
  \/ start_test_case
  \/ clear_histories
  \/ aggregate_clear
  \/ Finish

TimeSpec == Init /\ [][TimeNext]_vars

\* The facade: the test awaits, asserts and sends through the functions
\* that make the predicates of event specifiers and call a search on the
\* event history of the test, with or without a timeout.
FacadeNext ==
  \/ data_callback
  \/ await_event
  \/ await_telemetry
  \/ await_event_sequence
  \/ await_event_count
  \/ assert_event
  \/ assert_event_sequence
  \/ assert_event_count
  \/ send_and_await_event
  \/ send_and_assert_event
  \/ assert_result
  \/ ScanSequence
  \/ ScanCount
  \/ Arm
  \/ PollSequence
  \/ PollCount
  \/ Timeout
  \/ PollCut
  \/ Finish

FacadeSpec == Init /\ [][FacadeNext]_vars

TypeOK ==
  /\ Len(history) <= MaxHist
  /\ retrieved_cursor \in 0 .. Len(history)
  /\ pc \in {"idle", "scan", "arm", "poll", "done", "raised", "error",
            "passed"}
  /\ Len(history) <= Len(aggregate_event_history)
  /\ Len(telemetry_history) <= Len(aggregate_telemetry_history)
  /\ Len(command_history) <= Len(aggregate_command_history)
  /\ Arrivals <= MaxHist
  /\ latest_time \in 0 .. MaxHist
  /\ logger \in {"None", "open"}
  /\ alarm \in {"none", "current", "stale"}
  /\ pos \in 0 .. Len(new_items)
  /\ polled \in {"no", "part", "full"}

(* ------------------------------ claims -------------------------------- *)
\* the index in the history of a record, and the resolved start cursor
Index(r) == r.id - 1
StartIndex == IF start = NoStart THEN 0 ELSE start
Range(q) == {q[i] : i \in 1 .. Len(q)}
InCall == fn # "none"
Returned == pc = "done"

\* C1: a search called with start = NOW on a history of size S returns and
\* accumulates only records whose history index is >= S, in the initial
\* scan and in every poll batch.
C1_NowSeesOnlyLaterRecords ==
  (InCall /\ from_now) =>
    \A r \in Range(ret) \cup Range(sequence) \cup Range(objects) :
      Index(r) >= start

\* C2: a record r returned by find_history_item satisfies the predicate,
\* has an index >= the resolved start, and no record with an index in
\* [start, index(r)) satisfies the predicate.
C2_ItemIsFirstMatchFromStart ==
  (Returned /\ fn = "item") =>
    \A r \in Range(ret) :
      /\ Satisfies(search_pred, r)
      /\ Index(r) >= StartIndex
      /\ \A i \in 1 .. Len(history) :
           (StartIndex <= i - 1 /\ i - 1 < Index(r))
             => ~Satisfies(search_pred, history[i])

\* C3: with timeout = 0 a search only makes the initial scan: it never
\* enters the try block, installs the handler, arms the alarm, calls
\* retrieve_new() or sleeps; unsatisfied, the item search returns None and
\* the sequence and count searches return the accumulator of the initial
\* scan.
C3_ImmediateModeScansOnly ==
  (InCall /\ timeout = 0) =>
    /\ pc \notin {"arm", "poll"}
    /\ ~armed
    /\ polled = "no"
    /\ alarm # "current"
    /\ new_items = << >>
    /\ Returned =>
         /\ exit \in {"scan_match", "immediate", "empty"}
         /\ exit = "immediate" =>
              /\ fn = "item" =>
                   /\ ret = << >>
                   /\ \A r \in Range(current) : ~Satisfies(search_pred, r)
              /\ fn = "sequence" =>
                   /\ ret = sequence
                   /\ Range(ret) \subseteq Range(current)
                   /\ Len(ret) < Len(requested)
              /\ fn = "count" =>
                   /\ ret = objects
                   /\ ret = SelectSeq(current,
                                      LAMBDA r : Satisfies(search_pred, r))
                   /\ ~count_pred(count, Len(ret))

C3_Witness ==
  /\ Returned /\ timeout = 0 /\ exit = "immediate"
  /\ fn = "item"
  /\ current # << >>
  /\ ret = << >>

\* The greedy match stated predicate by predicate: the record for the first
\* predicate is the first record satisfying it, the record for the next
\* predicate is looked for after that one, and so on.
FirstFrom(p, items, from) ==
  LET hits == {j \in from + 1 .. Len(items) : Satisfies(p, items[j])}
  IN  IF hits = {} THEN 0 ELSE CHOOSE j \in hits : \A k \in hits : j <= k

RECURSIVE Greedy(_, _, _)
Greedy(preds, items, from) ==
  IF preds = << >> THEN << >>
  ELSE LET j == FirstFrom(Head(preds), items, from)
       IN  IF j = 0 THEN << >>
           ELSE << items[j] >> \o Greedy(Tail(preds), items, j)

\* C4: find_history_sequence is a single-pass greedy match: the i-th record
\* of the result satisfies the i-th predicate, the pointer advances by one
\* per record taken, a record that fails the predicate pointed to is
\* skipped for good, and for [P1, P2] on [a (not P1), b (P1 and P2),
\* c (P2)] the result is [b, c].
C4_SequenceIsGreedy ==
  (InCall /\ fn = "sequence") =>
    /\ Len(sequence) + Len(seq_preds) = Len(requested)
    /\ seq_preds = SubSeq(requested, Len(sequence) + 1, Len(requested))
    /\ \A i \in 1 .. Len(sequence) : Satisfies(requested[i], sequence[i])
    /\ (Returned /\ exit \in {"scan_match", "immediate"}) =>
         /\ ret = Greedy(requested, current, 0)
         /\ (/\ requested = << P1, P2 >>
             /\ Len(current) = 3
             /\ P1 \notin current[1].val
             /\ current[2].val = {P1, P2}
             /\ P2 \in current[3].val) => ret = << current[2], current[3] >>

C4_Witness ==
  /\ Returned /\ fn = "sequence" /\ exit = "scan_match"
  /\ requested = << P1, P2 >>
  /\ Len(current) = 3
  /\ current[1].val = {P2}
  /\ current[2].val = {P1, P2}
  /\ current[3].val = {P2}
  /\ ret = << current[2], current[3] >>

\* C5: with timeout > 0 the records find_history_sequence returns are in
\* strictly increasing history-index order, so that no record holds two
\* positions of the result, across the initial scan and all poll batches.
C5_SequenceStrictlyIncreasing ==
  (InCall /\ fn = "sequence" /\ timeout > 0) =>
    \A i, j \in 1 .. Len(sequence) :
      i < j => Index(sequence[i]) < Index(sequence[j])

\* C6: search exhaustion is never an exception: no TimeoutException leaves
\* a search call; on a timeout or in immediate mode the item search returns
\* None, the sequence search its accumulator, of length <= the number of
\* predicates and equal to it iff the sequence is complete, and the count
\* search its accumulator.
C6_ExhaustionIsNoException ==
  /\ pc # "raised"
  /\ (Returned /\ exit \in {"timeout", "immediate"}) =>
       /\ fn = "item" => ret = << >>
       /\ fn = "sequence" =>
            /\ ret = sequence
            /\ Len(ret) <= Len(requested)
            /\ (Len(ret) = Len(requested)) <=> (seq_preds = << >>)
       /\ fn = "count" => ret = objects

\* C7: on every exit path of a search no alarm armed by that call is
\* pending when the call returns.
C7_NoAlarmPendingAtReturn ==
  Returned => alarm # "current"

\* C8: an expiry of the alarm armed by one call is delivered only while
\* that call polls: it is not raised in the caller's code, not raised in
\* the initial scan of a later search, and does not end a later search.
C8_DeadlinesAreIndependent ==
  /\ ~caller_hit
  /\ pc # "raised"
  /\ fired_by # "stale"

\* C9: find_history_count with timeout > 0 and a count predicate "at least
\* N" does not go on waiting once N matching records are accumulated, and
\* a return with N or more accumulated returns them, the count predicate
\* holding of their number.
AtLeastN == InCall /\ fn = "count" /\ timeout > 0 /\ count.type = "pred"

C9_CountReturnsEarly ==
  AtLeastN =>
    /\ pc \in {"arm", "poll"} => Len(objects) < count.n
    /\ (Returned /\ Len(objects) >= count.n) =>
         /\ ret = objects
         /\ count_pred(count, Len(ret))
    /\ (Returned /\ exit \in {"scan_match", "poll_match"}) =>
         Len(objects) >= count.n

C9_Witness ==
  /\ AtLeastN /\ Returned /\ exit = "poll_match"
  /\ count.n = 2
  /\ Len(ret) = 2
  /\ alarm = "none"

\* C10 as claimed: when find_history_count returns satisfied, no record
\* of the batch it last went through (the initial scan or a poll batch)
\* that satisfies the item predicate is left out of the returned list.
C10_CountTakesWholeBatch ==
  (Returned /\ fn = "count") =>
    /\ exit = "scan_match" =>
         \A r \in Range(current) :
           Satisfies(search_pred, r) => r \in Range(ret)
    /\ exit = "poll_match" =>
         \A i \in pos + 1 .. Len(new_items) :
           ~Satisfies(search_pred, new_items[i])

Matching(items) == SelectSeq(items, LAMBDA r : Satisfies(search_pred, r))

\* C10 amended: the count predicate is evaluated after the whole initial
\* scan, and in a poll batch after each matching record. A search satisfied
\* by the initial scan returns every matching record of the scan; a search
\* satisfied in a poll batch returns the matching records of the batch up
\* to the first one on which the count predicate holds, and goes through
\* no later record of the batch.
C10_CountTestedPerRecordInPolls ==
  (Returned /\ fn = "count") =>
    /\ exit = "scan_match" =>
         /\ ret = Matching(current)
         /\ count_pred(count, Len(ret))
    /\ exit = "poll_match" =>
         LET taken == Matching(Prefix(new_items, pos))
         IN  /\ pos >= 1
             /\ Len(taken) >= 1
             /\ Len(ret) >= Len(taken)
             /\ SubSeq(ret, Len(ret) - Len(taken) + 1, Len(ret)) = taken
             /\ ret[Len(ret)] = new_items[pos]
             /\ count_pred(count, Len(ret))
             /\ \A j \in 1 .. Len(taken) - 1 :
                  ~count_pred(count, Len(ret) - j)

C10_Witness ==
  /\ Returned /\ fn = "count" /\ exit = "poll_match"
  /\ pos < Len(new_items)
  /\ Satisfies(search_pred, new_items[pos + 1])
  /\ new_items[pos + 1] \notin Range(ret)

\* C11: find_history_count with timeout = 0 returns exactly the records of
\* the history at index >= start that satisfy the item predicate (every
\* record at index >= start when the item predicate is omitted), in arrival
\* order, whether the count predicate holds of their number (the return at
\* line 899) or not (the return at line 917).
C11_ImmediateCountIsFilteredScan ==
  (Returned /\ fn = "count" /\ timeout = 0) =>
    LET wanted(r) == Index(r) >= StartIndex /\ Satisfies(search_pred, r)
        later(r) == Index(r) >= StartIndex
    IN  /\ ret = SelectSeq(history, wanted)
        /\ search_pred = always_true => ret = SelectSeq(history, later)
        /\ exit = IF count_pred(count, Len(ret)) THEN "scan_match"
                  ELSE "immediate"

C11_Witness ==
  /\ Returned /\ fn = "count" /\ timeout = 0 /\ exit = "immediate"
  /\ search_pred = P1
  /\ start = 1
  /\ Len(history) = 3
  /\ Len(ret) = 1
  /\ Satisfies(P1, history[1])
  /\ ~Satisfies(P1, history[2])

\* C12: a find_history_count call whose count is neither a predicate nor an
\* integer ends with the TypeError at once: the start cursor is not
\* resolved (start = NOW stays NOW, size() is not called), nothing is
\* retrieved from the history, the alarm is not touched, and the history
\* and its read cursor are what they were; nothing follows but the
\* exception reaching the caller.
C12_MalformedCountRejectedFirst ==
  [][/\ (fn = "none" /\ fn' = "count" /\ count'.type = "other") =>
          /\ pc' = "error"
          /\ exit' = "type_error"
          /\ from_now' => start' = NOW
          /\ UNCHANGED <<history, retrieved_cursor, alarm>>
          /\ current' = << >> /\ new_items' = << >> /\ objects' = << >>
          /\ ~armed' /\ polled' = "no"
     /\ pc = "error" =>
          /\ pc' = "idle"
          /\ UNCHANGED <<history, retrieved_cursor, alarm>>]_vars

C12_Witness ==
  /\ pc = "error" /\ exit = "type_error"
  /\ fn = "count" /\ count.type = "other"
  /\ from_now /\ start = NOW
  /\ timeout = 1
  /\ Len(history) = 2
  /\ retrieved_cursor = 0

\* C13: a search that polls (timeout > 0, initial scan unsatisfied) returns
\* as timed out only after it has armed the alarm and then completed at
\* least one pass over history.retrieve_new(), so that a matching record
\* that is in the history when the alarm is armed is returned.
C13_PollPassBeforeTimeout ==
  (Returned /\ exit = "timeout") => (armed /\ polled = "full")

\* C14: every search call comes to an end, and a call that has entered the
\* try block returns: with no satisfying record arriving, the polling loop
\* is left when the alarm expires, by the return of the except clause,
\* with None or the accumulator. A search that has timed out is not run
\* again and reads the history no more: the next step is the caller's.
C14_SearchTerminates ==
  /\ (pc \in {"scan", "arm", "poll"}) ~> (pc \in {"done", "raised"})
  /\ [][(pc \in {"arm", "poll"}) => (pc' \in {"arm", "poll", "done"})]_vars
  /\ [](pc \in {"arm", "poll"} => timeout > 0)
  /\ []((Returned /\ exit = "timeout") =>
          /\ ret = Partial(sequence, objects)
          /\ alarm = "none")
  /\ [][(Returned /\ exit = "timeout") =>
          /\ pc' = "idle"
          /\ UNCHANGED <<history, retrieved_cursor, alarm>>]_vars

\* the loop is left by the expiry with nothing found, after polling
C14_Witness ==
  /\ Returned /\ exit = "timeout"
  /\ polled = "full"
  /\ fired_by = "current"
  /\ fn = "item"
  /\ ret = << >>

\* C15 as claimed: find_history_sequence called with an empty predicate
\* list returns the empty list, whatever the history, start and timeout,
\* and nothing is done for it: no record is retrieved from the history, no
\* poll is made and no alarm is armed.
C15_EmptyListRetrievesNothing ==
  (Returned /\ fn = "sequence" /\ requested = << >>) =>
    /\ ret = << >>
    /\ current = << >>
    /\ new_items = << >>
    /\ polled = "no"
    /\ ~armed

\* C15 amended: find_history_sequence called with an empty predicate list
\* returns the empty list, of the requested length, whatever the history,
\* start and timeout. The start is resolved and the snapshot
\* history.retrieve(start) is taken before the list is tested, but no
\* record of the snapshot is gone through, the try block is not entered,
\* no poll is made and no alarm is armed.
C15_EmptyListScansNothing ==
  (InCall /\ fn = "sequence" /\ requested = << >>) =>
    /\ pc \in {"scan", "done", "raised"}
    /\ sequence = << >>
    /\ new_items = << >>
    /\ polled = "no"
    /\ ~armed
    /\ alarm # "current"
    /\ Returned =>
         /\ exit = "empty"
         /\ ret = << >>
         /\ Len(ret) = Len(requested)
         /\ current = retrieve(history, start)

C15_Witness ==
  /\ Returned /\ fn = "sequence" /\ requested = << >>
  /\ timeout = 1
  /\ Len(current) = 3
  /\ ret = << >>

\* C16: no step of a search, on any exit path, changes the records of the
\* searched history or their indices: a step that changes the history is
\* the receiver thread's append, it adds one record after the ones that are
\* there, and it is no step of the main thread.
C16_SearchesLeaveHistory ==
  [][history' # history =>
       /\ Len(history') = Len(history) + 1
       /\ SubSeq(history', 1, Len(history)) = history
       /\ UNCHANGED <<retrieved_cursor, pc, argvars, locvars, sigvars>>]_vars

\* a search that went through scan and polls and was ended by the alarm,
\* on a history of three records
C16_Witness ==
  /\ Returned /\ fn = "count" /\ exit = "timeout"
  /\ polled = "full"
  /\ Len(history) = 3
  /\ \A i \in 1 .. 3 : history[i].id = i
  /\ Len(ret) = 1

\* h is g with records appended, or g itself
Extends(h, g) == Len(h) >= Len(g) /\ SubSeq(h, 1, Len(g)) = g

\* C17: the API never clears or otherwise writes to the aggregate
\* histories: whatever clear_histories (with or without a time stamp),
\* start_test_case, teardown and searches are called, an aggregate history
\* only gets the records that the pipeline appends to it, and the steps of
\* these calls leave the three aggregate histories as they are: what is
\* cleared is the three histories made in __init__.
C17_AggregatesNeverCleared ==
  [][/\ Extends(aggregate_command_history', aggregate_command_history)
     /\ Extends(aggregate_telemetry_history', aggregate_telemetry_history)
     /\ Extends(aggregate_event_history', aggregate_event_history)
     /\ (fn' \in {"clear_histories", "start_test_case", "teardown"}
           /\ fn = "none") => UNCHANGED aggvars
     /\ (pc = "scan" /\ pc' # "scan") => UNCHANGED aggvars
     /\ pc \in {"done", "error"} => UNCHANGED aggvars]_vars

\* teardown has cleared the three histories of the test, each of which had
\* a record, and the aggregate histories still have theirs
C17_Witness ==
  /\ Returned /\ fn = "teardown"
  /\ Len(aggregate_command_history) = 1
  /\ Len(aggregate_telemetry_history) = 1
  /\ Len(aggregate_event_history) = 1
  /\ history = << >>
  /\ telemetry_history = << >>
  /\ command_history = << >>

\* the records of h whose time is at or after ts
NotBefore(h, ts) == SelectSeq(h, LAMBDA r : get_time(r) >= ts)

\* C18: clear_histories(time_stamp) with a time stamp leaves in the event
\* and telemetry histories of the test exactly the records whose time is
\* >= time_stamp, in their order: every record with an earlier time is
\* removed. The command history of the test is emptied, with a time stamp
\* and without one.
C18_ClearedBeforeTimeStamp ==
  [][(fn = "none" /\ fn' = "clear_histories") =>
       LET ts == time_stamp'
       IN  /\ command_history' = << >>
           /\ ts # NoStamp =>
                /\ history' = NotBefore(history, ts)
                /\ telemetry_history' = NotBefore(telemetry_history, ts)]_vars

\* clear_histories(2) on two events and a command: the event of time 1 and
\* the command are gone, the event of time 2 is there
C18_Witness ==
  /\ Returned /\ fn = "clear_histories"
  /\ time_stamp = 2
  /\ Len(aggregate_event_history) = 2
  /\ Len(aggregate_command_history) = 1
  /\ history = << aggregate_event_history[2] >>
  /\ command_history = << >>

\* the three histories of the test are empty
AllEmpty(e, t, c) ==
  /\ retrieve(e, 0) = << >>
  /\ retrieve(t, 0) = << >>
  /\ retrieve(c, 0) = << >>

\* C19: after clear_histories() without a time stamp (called by the test,
\* by start_test_case or by teardown) retrieve(0) is empty on the three
\* histories of the test, and a clear of histories that are empty changes
\* nothing. A later search whose start is a cursor taken before the clear,
\* now at or beyond the end of the history, does not fail and returns None
\* or the empty list; and a later search from the start of the history
\* finds the records appended after the clear.
C19_ClearEmptiesAndIsIdempotent ==
  /\ [][(/\ fn = "none"
         /\ fn' \in {"clear_histories", "start_test_case", "teardown"}
         /\ time_stamp' = NoStamp) =>
          /\ AllEmpty(history', telemetry_history', command_history')
          /\ AllEmpty(history, telemetry_history, command_history) =>
               UNCHANGED <<history, telemetry_history, command_history,
                           retrieved_cursor>>]_vars
  /\ []((InCall /\ fn \in {"item", "sequence"} /\ pc # "scan"
           /\ exit # "AttributeError") =>
          /\ pc = "done"
          /\ start >= Len(history) =>
               ret = << >> /\ exit \in {"immediate", "empty"}
          /\ (fn = "item" /\ start = NoStart) =>
               (ret = << >>) =
                 (\A i \in 1 .. Len(history) :
                    ~Satisfies(search_pred, history[i])))

\* the first event was cleared and two more have arrived; the search from
\* cursor 1, taken before the clear, returns the second of them
C19_Witness ==
  /\ Returned /\ fn = "item"
  /\ start = 1
  /\ Len(aggregate_event_history) = 3
  /\ Len(history) = 2
  /\ history[1] = aggregate_event_history[2]
  /\ ret = << history[2] >>

\* what the dictionaries give for the names the test passes
KnownIds ==
  Mnemonic("CMD_NO_OP") :> 11 @@ Ident(11) :> 11
    @@ Mnemonic("COUNTER") :> 21 @@ Ident(21) :> 21
    @@ Mnemonic("EVT_P1") :> 31 @@ Ident(32) :> 32

\* C20: translate_command_name, translate_telemetry_name and
\* translate_event_name return the identifier the dictionary has for a
\* known mnemonic or identifier and raise KeyError for an unknown one; and
\* a call of send_command or send_and_await_event in which a translation
\* raises KeyError has sent no command and started no search.
C20_FailedTranslationSendsNothing ==
  [][(fn = "none" /\ fn' # "none") =>
       /\ fn' \in {"translate_command_name", "translate_telemetry_name",
                   "translate_event_name"} =>
            LET x == requested'[1]
            IN  IF x \in DOMAIN KnownIds
                THEN ret' = << KnownIds[x] >> /\ exit' = "returned"
                ELSE ret' = << >> /\ exit' = "KeyError"
       /\ exit' = "KeyError" =>
            /\ pc' = "error"
            /\ UNCHANGED <<aggregate_command_history, command_history>>]_vars

\* C24: the list find_history_count returns holds each record of the
\* history at most once, and only records at an index >= the resolved
\* start: no record of the initial scan is counted again by a poll.
C24_CountsEachRecordOnce ==
  (Returned /\ fn = "count") =>
    /\ \A i, j \in 1 .. Len(ret) : i # j => ret[i] # ret[j]
    /\ \A i \in 1 .. Len(ret) : Index(ret[i]) >= StartIndex

\* the records of the history from the resolved start on that a running
\* search has behind the read cursor, by their positions
BehindCursor == (StartIndex + 1) .. retrieved_cursor

\* C25 as stated: a deadline-bounded search that returns unsatisfied has
\* examined every record that was appended at an index >= the resolved
\* start before it returned: the history holds no such record that the item
\* search would have returned or the count search would have counted. It
\* is stated of the searches that made a whole poll pass and were ended by
\* the alarm they armed themselves.
C25_NoArrivalMissed ==
  (Returned /\ exit = "timeout" /\ polled = "full" /\ fired_by = "current") =>
    \A i \in (StartIndex + 1) .. Len(history) :
      /\ fn = "item" => ~Satisfies(search_pred, history[i])
      /\ fn = "count" =>
           (Satisfies(search_pred, history[i]) => history[i] \in Range(ret))

\* C25 amended: while a deadline-bounded search is neither satisfied nor
\* ended by the timeout, no record at an index >= the resolved start has
\* been passed over: every such record is either still ahead of the read
\* cursor, where the next retrieve_new() returns it, or has been examined,
\* so that it does not satisfy the predicate of the item search, is in the
\* accumulator of the count search if it satisfies the item predicate, and
\* does not satisfy the predicate the sequence search has been waiting for
\* since its last match.
C25_NoArrivalPassedOver ==
  pc = "poll" =>
    \A i \in BehindCursor :
      /\ fn = "item" => ~Satisfies(search_pred, history[i])
      /\ fn = "count" =>
           (Satisfies(search_pred, history[i]) =>
              history[i] \in Range(objects))
      /\ fn = "sequence" =>
           ((sequence = << >> \/ i > sequence[Len(sequence)].id) =>
              ~SeqTest(seq_preds, history[i]))

\* a record that arrived after the call was polled and counted, and the
\* search goes on
C25_Witness ==
  /\ pc = "poll" /\ fn = "count" /\ from_now
  /\ polled = "full"
  /\ retrieved_cursor > StartIndex
  /\ Len(objects) >= 1

\* the initial scan of the running search has left it unsatisfied
Unsatisfied ==
  /\ fn = "item" => FirstMatch(search_pred, current) = << >>
  /\ fn = "sequence" => seq_preds # << >>
  /\ fn = "count" => ~count_pred(count, Len(objects))

\* C27: a search arms the alarm at most once, and only after the start
\* cursor is resolved and the initial scan has left it unsatisfied with a
\* timeout > 0; a search that its initial scan satisfies returns with no
\* alarm armed and no poll made; retrieve_new() is called only between the
\* arming and the return.
C27_StateMachineRespected ==
  /\ [][(alarm' = "current" /\ alarm # "current") =>
          /\ ~armed /\ armed'
          /\ pc = "arm" /\ pc' = "poll"
          /\ timeout > 0
          /\ start # NOW
          /\ exit = "none"
          /\ Unsatisfied]_vars
  /\ [][armed' => (armed \/ alarm' = "current")]_vars
  /\ [][(pc' = "arm") => (pc \in {"scan", "arm"})]_vars
  /\ []((Returned /\ exit \in {"scan_match", "immediate", "empty"}) =>
          (~armed /\ polled = "no"))
  /\ [][(retrieved_cursor' # retrieved_cursor \/ polled' # polled) =>
          (pc = "poll" /\ armed) \/ pc' = "idle"]_vars
  /\ []((pc = "poll" \/ polled # "no") => armed)

\* a search that armed the alarm, polled and returned the match of a poll
C27_Witness ==
  /\ Returned /\ armed
  /\ polled = "full"
  /\ exit = "poll_match"
  /\ alarm = "none"

\* the search each await function of the facade is to call
SearchOf ==
  [await_event |-> "item", await_telemetry |-> "item",
   await_event_sequence |-> "sequence", await_event_count |-> "count"]

\* C21: an await function called with specifiers the dictionary knows
\* enters the search of its kind as a direct call of that search does, on the
\* event history of the test, with the predicates made of the specifiers,
\* with the start of the caller resolved and with the timeout of the
\* caller, and nothing else done; what it returns is then what the search
\* returns.
C21_FacadeDispatchesFaithfully ==
  [][(wrapper = "none" /\ wrapper' \in DOMAIN SearchOf /\ exit' # "KeyError")
       =>
       /\ fn' = SearchOf[wrapper']
       /\ pc' = (IF fn' = "count" /\ ~IsCount(count') THEN "error"
                 ELSE "scan")
       /\ pc' = "scan" =>
            start' \in {ResolveStart(s, history) : s \in Starts}
       /\ timeout' \in Timeouts
       /\ wrapper' = "await_event" =>
            search_pred' = PredsOf(specifiers')[1]
       /\ wrapper' = "await_event_sequence" =>
            seq_preds' = PredsOf(specifiers')
       /\ wrapper' = "await_event_count" =>
            search_pred' = (IF specifiers' = NoSpecs THEN PredNone
                            ELSE PredsOf(specifiers')[1])
       /\ UNCHANGED <<hvars, ret, sessvars>>]_vars

Asserted ==
  /\ wrapper \in {"assert_event", "assert_event_sequence",
                  "assert_event_count"}
  /\ pc \in {"passed", "error"}
  /\ exit \notin {"KeyError", "type_error"}

\* what each assert function calls an incomplete search
Incomplete ==
  CASE wrapper = "assert_event" -> ret = << >>
    [] wrapper = "assert_event_sequence" ->
         Len(ret) # Len(specifiers.specs)
    [] wrapper = "assert_event_count" -> ~count_pred(count, Len(ret))

\* C23: an assert function ends by an assertion failure exactly when the
\* search it made is incomplete, and by no other exception; otherwise it
\* returns the result of the search as it is; called with start = None and
\* timeout = 0 it arms no alarm and polls nothing.
C23_AssertFailsIffIncomplete ==
  Asserted =>
    /\ pc = "error" => exit = "AssertionError"
    /\ (exit = "AssertionError") <=> Incomplete
    /\ (start = NoStart /\ timeout = 0) => (~armed /\ polled = "no")

\* C26: the search of a send_and_await or send_and_assert function starts
\* at the size the history had before the command was sent: no record it
\* returns was in the history, at an index below that size, when the
\* function was called.
C26_SendSearchesOnlyLaterRecords ==
  (/\ wrapper \in SendFns
   /\ fn = "sequence"
   /\ pc \in {"done", "passed", "error"})
    => \A i \in 1 .. Len(ret) : Index(ret[i]) >= start

\* the times get_latest_fsw_time compares, lines 97-106
Times ==
  {latest_time, LastTime(aggregate_event_history),
   LastTime(aggregate_telemetry_history)}

\* C28: latest_time never decreases, whatever becomes of the aggregate
\* histories; it is written by get_latest_fsw_time and start_test_case
\* only, which set it to the greatest of its value, the time of the last
\* aggregate event and the time of the last aggregate channel update; and
\* start_test_case does so in the call that clears the histories of the
\* test.
C28_LatestTimeNeverDecreases ==
  /\ [][latest_time' >= latest_time]_vars
  /\ [][(latest_time' # latest_time) =>
          (fn = "none" /\ fn' \in {"get_latest_fsw_time", "start_test_case"})
       ]_vars
  /\ [][(fn = "none" /\ fn' \in {"get_latest_fsw_time", "start_test_case"})
          => /\ latest_time' \in Times
             /\ \A t \in Times : latest_time' >= t]_vars
  /\ [][(fn = "none" /\ fn' = "start_test_case") =>
          /\ history' = << >>
          /\ telemetry_history' = << >>
          /\ command_history' = << >>
          /\ UNCHANGED aggvars]_vars
  /\ [][(fn = "none" /\ fn' = "get_latest_fsw_time") =>
          ret' = << latest_time' >>]_vars

\* the latest time is asked for after the aggregate histories were cleared:
\* it is still the time of a record that is gone
C28_Witness ==
  /\ fn = "get_latest_fsw_time" /\ pc = "done"
  /\ aggregate_event_history = << >>
  /\ aggregate_telemetry_history = << >>
  /\ latest_time > 0
  /\ ret = << latest_time >>

\* C29: find_history_count called without search_pred and called with
\* predicates.always_true() return equal lists: from the same state, the
\* initial scan of either call leaves the same accumulator, which is the
\* whole batch retrieve(start) and is what the filter by always_true gives,
\* and the same predicate for the polls, so that the two calls go on alike.
C29_OmittedIsAlwaysTrue ==
  /\ [][(pc = "scan" /\ fn = "count" /\ pc' # "scan"
           /\ requested \in {<< p >> : p \in CountAll}) =>
          LET items == retrieve(history, start)
          IN  /\ objects' = items
              /\ objects' = Filter(always_true, items)
              /\ search_pred' = always_true]_vars
  /\ []((fn = "count" /\ requested # << >>
           /\ pc \in {"arm", "poll", "done"}) =>
          search_pred = always_true)

\* a call without search_pred that went through a poll and returned more
\* than one record
C29_Witness ==
  /\ Returned /\ fn = "count"
  /\ requested = << PredNone >>
  /\ polled = "full"
  /\ Len(ret) >= 2

====
